---- MODULE Spec2Model ----
(***************************************************************************)
(* Model of the gcsf command line front end (src/main.rs): the             *)
(* configuration loader load_conf, the command dispatcher main, the mount  *)
(* supervisor mount_gcsf and the Ctrl-C handler it installs.               *)
(*                                                                         *)
(* One process run is a walk of pc through the statements of main,         *)
(* load_conf and mount_gcsf.  The outcome of every call into the           *)
(* environment (file system, FUSE mount, signal registration) is chosen    *)
(* nondeterministically.  The interrupt signal is a concurrent action.     *)
(* The settings file and the credential file persist across process runs;  *)
(* Restart starts the next run of the program.                             *)
(***************************************************************************)
EXTENDS Integers, Sequences, FiniteSets, TLC

\* ------------------------------------------------------------------ bounds
\* Longest mount_options list a user settings file holds.
MaxOpts == 2
\* Number of process runs (each calls load_conf once).
MaxRuns == 2
\* Interrupt signals delivered to one process run.
MaxSignals == 2
\* Polling intervals after which the latency measurement saturates.
MaxLatencyIntervals == 3

\* ------------------------------------------------------- program constants
\* thread::sleep(time::Duration::from_millis(50))
PollMillis == 50
\* "sync_interval = 10" of DEFAULT_CONFIG
DefaultSyncInterval == 10

\* Option<String>::None
None == "None"
\* xdg_dirs.place_config_file("auth_token.json")
DerivedTokenPath == "$XDG_CONFIG_HOME/gcsf/auth_token.json"
\* a credential path a settings file may carry under the key token_path
ForeignTokenPath == "/tmp/other_token.json"

\* Option strings a user file may list.
OptVals == {"ro", "allow_other"}

RECURSIVE SeqsUpTo(_, _)
SeqsUpTo(S, n) ==
    IF n = 0 THEN {<<>>}
    ELSE LET shorter == SeqsUpTo(S, n - 1)
         IN  shorter \cup {Append(s, x) : s \in {t \in shorter : Len(t) = n - 1}, x \in S}

\* ------------------------------------------------------- settings file
\* The content of the settings file, by what the parser makes of it.
\*   kind "absent"    : no file
\*   kind "toml"      : a complete, well formed file with the fields below
\*   kind "truncated" : what File::create followed by an incomplete write_all
\*                      leaves (a prefix of DEFAULT_CONFIG, possibly empty)
\*   kind "malformed" : not parseable
FileOf(kind, debug, sync, opts, token) ==
    [kind |-> kind, debug |-> debug, sync_interval |-> sync,
     mount_options |-> opts, token_path |-> token]

DEFAULT_CONFIG ==
    FileOf("toml", FALSE, DefaultSyncInterval,
           <<"fsname=GCSF", "allow_root", "big_writes", "max_write=131072">>, None)

AbsentFile == FileOf("absent", FALSE, 0, <<>>, None)
TruncatedFile == FileOf("truncated", FALSE, 0, <<>>, None)
MalformedFile == FileOf("malformed", FALSE, 0, <<>>, None)

UserFiles ==
    {FileOf("toml", d, DefaultSyncInterval, o, t) :
        d \in BOOLEAN, o \in SeqsUpTo(OptVals, MaxOpts), t \in {None, ForeignTokenPath}}

InitialFiles == {AbsentFile, MalformedFile, DEFAULT_CONFIG} \cup UserFiles

\* gcsf::Config
ConfigOf(debug, sync, opts, token) ==
    [debug |-> debug, sync_interval |-> sync, mount_options |-> opts,
     token_path |-> token]

NoConfig == ConfigOf(FALSE, 0, <<>>, None)

\* settings.merge(config::File::with_name(..)): does the file parse?
\* A truncated template may or may not be cut at a place that still parses.
MergeOutcomes(f) ==
    CASE f.kind = "toml"      -> {TRUE}
      [] f.kind = "truncated" -> {TRUE, FALSE}
      [] OTHER                -> {FALSE}

\* settings.try_into::<Config>(): the typed configuration, or "Err".
\* Every field, token_path included, is read from the file when it is there.
\* What a file that lacks keys converts to is the collaborator's decision.
TryIntoOutcomes(f) ==
    CASE f.kind = "toml" ->
            {[ok |-> TRUE,
              cfg |-> ConfigOf(f.debug, f.sync_interval, f.mount_options, f.token_path)]}
      [] f.kind = "truncated" ->
            {[ok |-> FALSE, cfg |-> NoConfig],
             [ok |-> TRUE,
              cfg |-> ConfigOf(DEFAULT_CONFIG.debug, DEFAULT_CONFIG.sync_interval,
                               DEFAULT_CONFIG.mount_options, None)]}
      [] OTHER -> {[ok |-> FALSE, cfg |-> NoConfig]}

\* ------------------------------------------------------- option pairing
\* itertools interleave_shortest of iter::repeat("-o") with vals: alternate,
\* starting with the repeat iterator, and stop at the first iterator that
\* is exhausted when its turn comes.  i is the next index into vals,
\* phase = FALSE means the repeat iterator is next.
RECURSIVE InterleaveShortest(_, _, _, _)
InterleaveShortest(vals, i, phase, acc) ==
    IF ~phase
    THEN InterleaveShortest(vals, i, TRUE, Append(acc, "-o"))
    ELSE IF i > Len(vals)
         THEN acc
         ELSE InterleaveShortest(vals, i + 1, FALSE, Append(acc, vals[i]))

\* Vec::pop: removes the last element, if any.
Pop(s) == IF s = <<>> THEN s ELSE SubSeq(s, 1, Len(s) - 1)

BuildOptions_NoPop(vals) == InterleaveShortest(vals, 1, FALSE, <<>>)

BuildOptions(vals) == Pop(InterleaveShortest(vals, 1, FALSE, <<>>))

\* ------------------------------------------------------------------ state
VARIABLES
    \* persistent: the configuration directory and the two files in it
    dirExists, file, tokenExists,
    \* history over all runs
    runs,          \* process runs started so far
    loaderCalls,   \* load_conf invocations so far
    fileCreates,   \* successful File::create calls on the settings file
    fileWrites,    \* completed write_all calls of the template
    initAbsent,    \* the settings file was absent before the first run
    absentOk,      \* some load_conf found the file absent and returned Ok
    \* the current process run
    cmd,           \* subcommand on the command line
    pc,            \* position of the main thread
    foundAbsent,   \* !config_path.exists() as evaluated by this run
    config,        \* the Configuration load_conf returned
    loadResult,    \* "none", "Ok", "Err" (returned Err) or "Panic"
    options,       \* the -o argument vector
    probeLive,     \* the NullFS session handle is alive
    realLive,      \* the GCSF session handle is alive
    running,       \* the AtomicBool: "unallocated", "true" or "false"
    handlerInstalled,
    handlerFailed, \* ctrlc::set_handler returned Err
    polled,        \* the value the wait loop loaded last ("none" before)
    latency,       \* milliseconds slept to the end while the flag was false
    probeResult,   \* what the probe spawn_mount returned: "none", "Ok", "Err"
    realResult,    \* what the real spawn_mount returned: "none", "Ok", "Err"
    fileAtStart,   \* the settings file as this run found it
    dirAtStart,    \* whether this run found the configuration directory
    removeResult,  \* what fs::remove_file returned: "none", "Ok", "Err"
    removeTarget,  \* the path handed to fs::remove_file (None before)
    calls,         \* how often each collaborator was called
    signals        \* interrupt signals delivered to this run

fsVars == <<dirExists, file, tokenExists>>
histVars == <<runs, loaderCalls, fileCreates, fileWrites, initAbsent, absentOk>>
loadVars == <<foundAbsent, config, loadResult>>
mountVars == <<options, probeLive, realLive, running, handlerInstalled,
               handlerFailed, polled, latency>>
resVars == <<probeResult, realResult, fileAtStart, dirAtStart, removeResult,
             removeTarget>>
vars == <<fsVars, histVars, loadVars, mountVars, resVars, cmd, pc, calls, signals>>

Commands == {"mount", "logout", "none"}

NoCalls == [probe |-> 0, construct |-> 0, realMount |-> 0, handler |-> 0,
            supervisor |-> 0, remove |-> 0, merge |-> 0, realDrop |-> 0]

Terminal == {"done", "aborted", "killed"}

Init ==
    /\ dirExists \in BOOLEAN
    /\ file \in InitialFiles
    /\ tokenExists \in BOOLEAN
    /\ ~dirExists => (file = AbsentFile /\ ~tokenExists)
    /\ runs = 1
    /\ loaderCalls = 0
    /\ fileCreates = 0
    /\ fileWrites = 0
    /\ initAbsent = (file = AbsentFile)
    /\ absentOk = FALSE
    /\ cmd \in Commands
    /\ pc = "lc_place_conf"
    /\ foundAbsent = FALSE
    /\ config = NoConfig
    /\ loadResult = "none"
    /\ options = <<>>
    /\ probeLive = FALSE
    /\ realLive = FALSE
    /\ running = "unallocated"
    /\ handlerInstalled = FALSE
    /\ handlerFailed = FALSE
    /\ polled = "none"
    /\ latency = 0
    /\ probeResult = "none"
    /\ realResult = "none"
    /\ fileAtStart = file
    /\ dirAtStart = dirExists
    /\ removeResult = "none"
    /\ removeTarget = None
    /\ calls = NoCalls
    /\ signals = 0

\* ---------------------------------------------------------- load_conf
\* Bump(c, k): the call counters with collaborator k called once more.
Bump(c, k) == [c EXCEPT ![k] = @ + 1]

\* load_conf does not return a Configuration: it returned Err and main's
\* expect panics ("Err"), or one of its own unwrap/expect calls panicked
\* ("Panic").  Either way the process aborts before the dispatcher.
LoadFails_Continue(how) ==
    /\ loadResult' = how
    /\ config' = ConfigOf(DEFAULT_CONFIG.debug, DEFAULT_CONFIG.sync_interval,
                          DEFAULT_CONFIG.mount_options, DerivedTokenPath)
    /\ pc' = "dispatch_logout"

LoadFails(how) ==
    /\ loadResult' = how
    /\ config' = config
    /\ pc' = "aborted"

\* xdg::BaseDirectories::with_prefix("gcsf").unwrap() and
\* place_config_file("gcsf.toml"), which creates the directory.
PlaceConfigFile ==
    /\ pc = "lc_place_conf"
    /\ loaderCalls' = loaderCalls + 1
    /\ \E r \in {"ok", "err", "panic"} :
          \/ /\ r = "ok"
             /\ dirExists' = TRUE
             /\ pc' = "lc_exists"
             /\ UNCHANGED <<config, loadResult>>
          \/ /\ r = "err"
             /\ LoadFails("Err")
             /\ UNCHANGED dirExists
          \/ /\ r = "panic"
             /\ LoadFails("Panic")
             /\ UNCHANGED dirExists
    /\ UNCHANGED <<file, tokenExists, runs, fileCreates, fileWrites, initAbsent,
                   absentOk, foundAbsent, mountVars, cmd, resVars, calls, signals>>

\* if !config_path.exists()
CheckExists_Always ==
    /\ pc = "lc_exists"
    /\ foundAbsent' = TRUE
    /\ pc' = "lc_create"
    /\ UNCHANGED <<fsVars, histVars, config, loadResult, mountVars, cmd, resVars, calls, signals>>

CheckExists_Never ==
    /\ pc = "lc_exists"
    /\ foundAbsent' = FALSE
    /\ pc' = "lc_place_token"
    /\ UNCHANGED <<fsVars, histVars, config, loadResult, mountVars, cmd, resVars, calls, signals>>

CheckExists ==
    /\ pc = "lc_exists"
    /\ foundAbsent' = (file.kind = "absent")
    /\ pc' = IF file.kind = "absent" THEN "lc_create" ELSE "lc_place_token"
    /\ UNCHANGED <<fsVars, histVars, config, loadResult, mountVars, cmd, resVars, calls, signals>>

\* fs::File::create(config_path.clone()): an empty file, or Err.
CreateFile ==
    /\ pc = "lc_create"
    /\ \E ok \in BOOLEAN :
          \/ /\ ok
             /\ file' = TruncatedFile
             /\ fileCreates' = fileCreates + 1
             /\ pc' = "lc_write"
             /\ UNCHANGED <<config, loadResult>>
          \/ /\ ~ok
             /\ LoadFails("Err")
             /\ UNCHANGED <<file, fileCreates>>
    /\ UNCHANGED <<dirExists, tokenExists, runs, loaderCalls, fileWrites, initAbsent,
                   absentOk, foundAbsent, mountVars, cmd, resVars, calls, signals>>

\* config_file.write_all(DEFAULT_CONFIG.as_bytes())?
WriteDefault ==
    /\ pc = "lc_write"
    /\ \E ok \in BOOLEAN :
          \/ /\ ok
             /\ file' = DEFAULT_CONFIG
             /\ fileWrites' = fileWrites + 1
             /\ pc' = "lc_place_token"
             /\ UNCHANGED <<config, loadResult>>
          \/ /\ ~ok
             /\ file' = TruncatedFile
             /\ LoadFails("Err")
             /\ UNCHANGED fileWrites
    /\ UNCHANGED <<dirExists, tokenExists, runs, loaderCalls, fileCreates, initAbsent,
                   absentOk, foundAbsent, mountVars, cmd, resVars, calls, signals>>

\* xdg_dirs.place_config_file("auth_token.json")
PlaceTokenFile ==
    /\ pc = "lc_place_token"
    /\ \E ok \in BOOLEAN :
          \/ /\ ok
             /\ pc' = "lc_merge"
             /\ UNCHANGED <<config, loadResult>>
          \/ /\ ~ok
             /\ LoadFails("Err")
    /\ UNCHANGED <<fsVars, histVars, foundAbsent, mountVars, cmd, resVars, calls, signals>>

\* settings.merge(config::File::with_name(..)).expect("Invalid configuration file")
Merge ==
    /\ pc = "lc_merge"
    /\ calls' = Bump(calls, "merge")
    /\ \E ok \in MergeOutcomes(file) :
          \/ /\ ok
             /\ pc' = "lc_convert"
             /\ UNCHANGED <<config, loadResult>>
          \/ /\ ~ok
             /\ LoadFails("Panic")
    /\ UNCHANGED <<fsVars, histVars, foundAbsent, mountVars, cmd, resVars, signals>>

\* let mut config = settings.try_into::<Config>()?;
\* config.token_path = Some(token_path..); Ok(config)
Convert_KeepParsed ==
    /\ pc = "lc_convert"
    /\ \E o \in TryIntoOutcomes(file) :
          \/ /\ o.ok
             /\ config' = o.cfg
             /\ loadResult' = "Ok"
             /\ absentOk' = (absentOk \/ foundAbsent)
             /\ pc' = "dispatch_logout"
          \/ /\ ~o.ok
             /\ LoadFails("Err")
             /\ UNCHANGED absentOk
    /\ UNCHANGED <<fsVars, runs, loaderCalls, fileCreates, fileWrites, initAbsent,
                   foundAbsent, mountVars, cmd, resVars, calls, signals>>

Convert ==
    /\ pc = "lc_convert"
    /\ \E o \in TryIntoOutcomes(file) :
          \/ /\ o.ok
             /\ config' = [o.cfg EXCEPT !.token_path = DerivedTokenPath]
             /\ loadResult' = "Ok"
             /\ absentOk' = (absentOk \/ foundAbsent)
             /\ pc' = "dispatch_logout"
          \/ /\ ~o.ok
             /\ LoadFails("Err")
             /\ UNCHANGED absentOk
    /\ UNCHANGED <<fsVars, runs, loaderCalls, fileCreates, fileWrites, initAbsent,
                   foundAbsent, mountVars, cmd, resVars, calls, signals>>

\* --------------------------------------------------------------- main
\* if let Some(_) = matches.subcommand_matches("logout") { fs::remove_file(..) }
\* token_path.as_ref().unwrap() panics on None (load_conf always sets Some,
\* so that branch is taken only if load_conf is changed); a removal error
\* is printed and the process goes on.
DispatchLogout_Abort ==
    /\ pc = "dispatch_logout"
    /\ \/ /\ cmd = "logout"
          /\ config.token_path = None
          /\ pc' = "aborted"
          /\ UNCHANGED <<tokenExists, calls, removeResult, removeTarget>>
       \/ /\ cmd = "logout"
          /\ config.token_path # None
          /\ calls' = Bump(calls, "remove")
          /\ removeTarget' = config.token_path
          /\ \E ok \in (IF tokenExists THEN BOOLEAN ELSE {FALSE}) :
                /\ tokenExists' = IF ok THEN FALSE ELSE tokenExists
                /\ removeResult' = IF ok THEN "Ok" ELSE "Err"
                /\ pc' = IF ok THEN "dispatch_mount" ELSE "aborted"
       \/ /\ cmd # "logout"
          /\ pc' = "dispatch_mount"
          /\ UNCHANGED <<tokenExists, calls, removeResult, removeTarget>>
    /\ UNCHANGED <<dirExists, file, histVars, loadVars, mountVars, cmd, probeResult,
                   realResult, fileAtStart, dirAtStart, signals>>

DispatchLogout ==
    /\ pc = "dispatch_logout"
    /\ \/ /\ cmd = "logout"
          /\ config.token_path = None
          /\ pc' = "aborted"
          /\ UNCHANGED <<tokenExists, calls, removeResult, removeTarget>>
       \/ /\ cmd = "logout"
          /\ config.token_path # None
          /\ calls' = Bump(calls, "remove")
          /\ removeTarget' = config.token_path
          /\ \E ok \in (IF tokenExists THEN BOOLEAN ELSE {FALSE}) :
                /\ tokenExists' = IF ok THEN FALSE ELSE tokenExists
                /\ removeResult' = IF ok THEN "Ok" ELSE "Err"
          /\ pc' = "dispatch_mount"
       \/ /\ cmd # "logout"
          /\ pc' = "dispatch_mount"
          /\ UNCHANGED <<tokenExists, calls, removeResult, removeTarget>>
    /\ UNCHANGED <<dirExists, file, histVars, loadVars, mountVars, cmd, probeResult,
                   realResult, fileAtStart, dirAtStart, signals>>

\* if let Some(matches) = matches.subcommand_matches("mount") { mount_gcsf(..) }
DispatchMount_Always ==
    /\ pc = "dispatch_mount"
    /\ calls' = Bump(calls, "supervisor")
    /\ pc' = "build_options"
    /\ UNCHANGED <<fsVars, histVars, loadVars, mountVars, cmd, resVars, signals>>

DispatchMount ==
    /\ pc = "dispatch_mount"
    /\ \/ /\ cmd = "mount"
          /\ calls' = Bump(calls, "supervisor")
          /\ pc' = "build_options"
       \/ /\ cmd # "mount"
          /\ pc' = "done"
          /\ UNCHANGED calls
    /\ UNCHANGED <<fsVars, histVars, loadVars, mountVars, cmd, resVars, signals>>

\* --------------------------------------------------------- mount_gcsf
\* let vals = config.mount_options(); ...interleave_shortest...; options.pop();
BuildOptionsStep ==
    /\ pc = "build_options"
    /\ options' = BuildOptions(config.mount_options)
    /\ pc' = "probe_mount"
    /\ UNCHANGED <<fsVars, histVars, loadVars, probeLive, realLive, running,
                   handlerInstalled, handlerFailed, polled, latency, cmd, resVars, calls, signals>>

\* match fuse::spawn_mount(NullFS {}, ..) { Ok(session) => .., Err(e) => return }
ProbeMount_NoReturn ==
    /\ pc = "probe_mount"
    /\ calls' = Bump(calls, "probe")
    /\ \E ok \in BOOLEAN :
          /\ probeResult' = IF ok THEN "Ok" ELSE "Err"
          /\ probeLive' = ok
          /\ pc' = IF ok THEN "probe_drop" ELSE "construct"
    /\ UNCHANGED <<fsVars, histVars, loadVars, options, realLive, running,
                   handlerInstalled, handlerFailed, polled, latency, cmd,
                   realResult, fileAtStart, dirAtStart, removeResult, removeTarget,
                   signals>>

ProbeMount ==
    /\ pc = "probe_mount"
    /\ calls' = Bump(calls, "probe")
    /\ \E ok \in BOOLEAN :
          /\ probeResult' = IF ok THEN "Ok" ELSE "Err"
          /\ probeLive' = ok
          /\ pc' = IF ok THEN "probe_drop" ELSE "main_exit"
    /\ UNCHANGED <<fsVars, histVars, loadVars, options, realLive, running,
                   handlerInstalled, handlerFailed, polled, latency, cmd,
                   realResult, fileAtStart, dirAtStart, removeResult, removeTarget,
                   signals>>

\* drop(session)
ProbeDrop_Leak ==
    /\ pc = "probe_drop"
    /\ pc' = "construct"
    /\ UNCHANGED <<fsVars, histVars, loadVars, mountVars, cmd, resVars, calls, signals>>

ProbeDrop ==
    /\ pc = "probe_drop"
    /\ probeLive' = FALSE
    /\ pc' = "construct"
    /\ UNCHANGED <<fsVars, histVars, loadVars, options, realLive, running,
                   handlerInstalled, handlerFailed, polled, latency, cmd, resVars, calls, signals>>

\* let fs: GCSF = GCSF::with_config(config);
Construct ==
    /\ pc = "construct"
    /\ calls' = Bump(calls, "construct")
    /\ pc' = "real_mount"
    /\ UNCHANGED <<fsVars, histVars, loadVars, mountVars, cmd, resVars, signals>>

\* match fuse::spawn_mount(fs, ..) { Ok(_session) => .., Err(e) => error!(..) }
RealMount_Retry ==
    /\ pc = "real_mount"
    /\ calls' = Bump(calls, "realMount")
    /\ \E ok \in BOOLEAN :
          /\ realResult' = IF ok THEN "Ok" ELSE "Err"
          /\ realLive' = ok
          /\ pc' = IF ok THEN "make_flag" ELSE IF calls.realMount = 0 THEN "real_mount" ELSE "main_exit"
    /\ UNCHANGED <<fsVars, histVars, loadVars, options, probeLive, running,
                   handlerInstalled, handlerFailed, polled, latency, cmd,
                   probeResult, fileAtStart, dirAtStart, removeResult, removeTarget,
                   signals>>

RealMount_FailContinue ==
    /\ pc = "real_mount"
    /\ calls' = Bump(calls, "realMount")
    /\ \E ok \in BOOLEAN :
          /\ realResult' = IF ok THEN "Ok" ELSE "Err"
          /\ realLive' = ok
          /\ pc' = IF ok THEN "make_flag" ELSE "make_flag"
    /\ UNCHANGED <<fsVars, histVars, loadVars, options, probeLive, running,
                   handlerInstalled, handlerFailed, polled, latency, cmd,
                   probeResult, fileAtStart, dirAtStart, removeResult, removeTarget,
                   signals>>

RealMount_DropImmediately ==
    /\ pc = "real_mount"
    /\ calls' = Bump(calls, "realMount")
    /\ \E ok \in BOOLEAN :
          /\ realResult' = IF ok THEN "Ok" ELSE "Err"
          /\ realLive' = FALSE
          /\ pc' = IF ok THEN "make_flag" ELSE "main_exit"
    /\ UNCHANGED <<fsVars, histVars, loadVars, options, probeLive, running,
                   handlerInstalled, handlerFailed, polled, latency, cmd,
                   probeResult, fileAtStart, dirAtStart, removeResult, removeTarget,
                   signals>>

RealMount ==
    /\ pc = "real_mount"
    /\ calls' = Bump(calls, "realMount")
    /\ \E ok \in BOOLEAN :
          /\ realResult' = IF ok THEN "Ok" ELSE "Err"
          /\ realLive' = ok
          /\ pc' = IF ok THEN "make_flag" ELSE "main_exit"
    /\ UNCHANGED <<fsVars, histVars, loadVars, options, probeLive, running,
                   handlerInstalled, handlerFailed, polled, latency, cmd,
                   probeResult, fileAtStart, dirAtStart, removeResult, removeTarget,
                   signals>>

\* let running = Arc::new(AtomicBool::new(true)); let r = running.clone();
MakeFlag ==
    /\ pc = "make_flag"
    /\ running' = "true"
    /\ pc' = "set_handler"
    /\ UNCHANGED <<fsVars, histVars, loadVars, options, probeLive, realLive,
                   handlerInstalled, handlerFailed, polled, latency, cmd, resVars, calls, signals>>

\* ctrlc::set_handler(..).expect("Error setting Ctrl-C handler"): on Err the
\* panic unwinds through the match arm and drops _session.
SetHandler_IgnoreErr ==
    /\ pc = "set_handler"
    /\ calls' = Bump(calls, "handler")
    /\ \E ok \in BOOLEAN :
          /\ handlerInstalled' = ok
          /\ handlerFailed' = ~ok
          /\ pc' = "poll"
    /\ UNCHANGED <<fsVars, histVars, loadVars, options, probeLive, realLive, running,
                   polled, latency, cmd, resVars, signals>>

SetHandler ==
    /\ pc = "set_handler"
    /\ \E ok \in BOOLEAN :
          \/ /\ ok
             /\ calls' = Bump(calls, "handler")
             /\ handlerInstalled' = TRUE
             /\ pc' = "poll"
             /\ UNCHANGED <<handlerFailed, realLive>>
          \/ /\ ~ok
             /\ calls' = Bump(Bump(calls, "handler"), "realDrop")
             /\ handlerFailed' = TRUE
             /\ realLive' = FALSE
             /\ pc' = "aborted"
             /\ UNCHANGED handlerInstalled
    /\ UNCHANGED <<fsVars, histVars, loadVars, options, probeLive, running,
                   polled, latency, cmd, resVars, signals>>

\* while running.load(Ordering::SeqCst) {
Poll_SleepFirst ==
    /\ pc = "poll"
    /\ polled' = running
    /\ pc' = IF running = "true" \/ polled = "true" THEN "sleep" ELSE "scope_exit"
    /\ UNCHANGED <<fsVars, histVars, loadVars, options, probeLive, realLive, running,
                   handlerInstalled, handlerFailed, latency, cmd, resVars, calls, signals>>

Poll_Timeout ==
    /\ pc = "poll"
    /\ polled' = running
    /\ pc' = IF running = "true" /\ polled = "none" THEN "sleep" ELSE "scope_exit"
    /\ UNCHANGED <<fsVars, histVars, loadVars, options, probeLive, realLive, running,
                   handlerInstalled, handlerFailed, latency, cmd, resVars, calls, signals>>

Poll ==
    /\ pc = "poll"
    /\ polled' = running
    /\ pc' = IF running = "true" THEN "sleep" ELSE "scope_exit"
    /\ UNCHANGED <<fsVars, histVars, loadVars, options, probeLive, realLive, running,
                   handlerInstalled, handlerFailed, latency, cmd, resVars, calls, signals>>

MaxLatency == MaxLatencyIntervals * PollMillis

\*     thread::sleep(time::Duration::from_millis(50)); }
\* The sleep runs to its end; a sleep that ends after the flag became false
\* adds up to one interval to the time since the flag flipped.
Sleep ==
    /\ pc = "sleep"
    /\ pc' = "poll"
    /\ latency' = IF running = "false" /\ latency + PollMillis <= MaxLatency
                  THEN latency + PollMillis ELSE latency
    /\ UNCHANGED <<fsVars, histVars, loadVars, options, probeLive, realLive, running,
                   handlerInstalled, handlerFailed, polled, cmd, resVars, calls, signals>>

\* end of the Ok(_session) arm: _session goes out of scope and is dropped
ScopeExit_Leak ==
    /\ pc = "scope_exit"
    /\ pc' = "main_exit"
    /\ UNCHANGED <<fsVars, histVars, loadVars, mountVars, cmd, resVars, calls, signals>>

ScopeExit ==
    /\ pc = "scope_exit"
    /\ realLive' = FALSE
    /\ calls' = Bump(calls, "realDrop")
    /\ pc' = "main_exit"
    /\ UNCHANGED <<fsVars, histVars, loadVars, options, probeLive, running,
                   handlerInstalled, handlerFailed, polled, latency, cmd, resVars, signals>>

\* mount_gcsf returned; main ends
MainExit ==
    /\ pc = "main_exit"
    /\ pc' = "done"
    /\ UNCHANGED <<fsVars, histVars, loadVars, mountVars, cmd, resVars, calls, signals>>

\* ------------------------------------------------------- interrupt signal
\* An interrupt reaches the process.  With the handler registered its
\* closure runs: r.store(false, SeqCst).  Before set_handler has registered
\* it no handler exists in the program and the signal's default action
\* ends the process on the spot: no destructor runs.
Signal_Toggle ==
    /\ pc \notin Terminal
    /\ signals < MaxSignals
    /\ signals' = signals + 1
    /\ \/ /\ handlerInstalled
          /\ running' = IF running = "true" THEN "false" ELSE "true"
          /\ UNCHANGED pc
       \/ /\ ~handlerInstalled
          /\ pc' = "killed"
          /\ UNCHANGED running
    /\ UNCHANGED <<fsVars, histVars, loadVars, options, probeLive, realLive,
                   handlerInstalled, handlerFailed, polled, latency, cmd, resVars, calls>>

Signal_SecondKills ==
    /\ pc \notin Terminal
    /\ signals < MaxSignals
    /\ signals' = signals + 1
    /\ \/ /\ handlerInstalled
          /\ running = "true"
          /\ running' = "false"
          /\ UNCHANGED pc
       \/ /\ ~(handlerInstalled /\ running = "true")
          /\ pc' = "killed"
          /\ UNCHANGED running
    /\ UNCHANGED <<fsVars, histVars, loadVars, options, probeLive, realLive,
                   handlerInstalled, handlerFailed, polled, latency, cmd, resVars, calls>>

Signal ==
    /\ pc \notin Terminal
    /\ signals < MaxSignals
    /\ signals' = signals + 1
    /\ \/ /\ handlerInstalled
          /\ running' = "false"
          /\ UNCHANGED pc
       \/ /\ ~handlerInstalled
          /\ pc' = "killed"
          /\ UNCHANGED running
    /\ UNCHANGED <<fsVars, histVars, loadVars, options, probeLive, realLive,
                   handlerInstalled, handlerFailed, polled, latency, cmd, resVars, calls>>

\* --------------------------------------------------------- next run
\* The program is started again: a new process, the same files.
Restart ==
    /\ pc \in Terminal
    /\ runs < MaxRuns
    /\ runs' = runs + 1
    /\ cmd' \in Commands
    /\ pc' = "lc_place_conf"
    /\ foundAbsent' = FALSE
    /\ config' = NoConfig
    /\ loadResult' = "none"
    /\ options' = <<>>
    /\ probeLive' = FALSE
    /\ realLive' = FALSE
    /\ running' = "unallocated"
    /\ handlerInstalled' = FALSE
    /\ handlerFailed' = FALSE
    /\ polled' = "none"
    /\ latency' = 0
    /\ probeResult' = "none"
    /\ realResult' = "none"
    /\ fileAtStart' = file
    /\ dirAtStart' = dirExists
    /\ removeResult' = "none"
    /\ removeTarget' = None
    /\ calls' = NoCalls
    /\ signals' = 0
    /\ UNCHANGED <<fsVars, loaderCalls, fileCreates, fileWrites, initAbsent, absentOk>>

\* The steps of the main thread.
MainStep ==
    \/ PlaceConfigFile
    \/ CheckExists
    \/ CreateFile
    \/ WriteDefault
    \/ PlaceTokenFile
    \/ Merge
    \/ Convert
    \/ DispatchLogout
    \/ DispatchMount
    \/ BuildOptionsStep
    \/ ProbeMount
    \/ ProbeDrop
    \/ Construct
    \/ RealMount
    \/ MakeFlag
    \/ SetHandler
    \/ Poll
    \/ Sleep
    \/ ScopeExit
    \/ MainExit

Next ==
    \/ MainStep
    \/ Signal
    \/ Restart

Spec == Init /\ [][Next]_vars

\* The main thread is scheduled: a step it can take is eventually taken.
FairSpec == Spec /\ WF_vars(MainStep)

\* ================================================================ claims

\* C1 (P4 probe isolation): in a run whose probe mount failed, GCSF::with_config
\* is called zero times, the real mount is never attempted and no real session
\* exists; the supervisor has returned (or the run was ended by a signal).
C1_ProbeIsolation ==
    probeResult = "Err" =>
        /\ calls.construct = 0
        /\ calls.realMount = 0
        /\ realResult = "none"
        /\ ~realLive
        /\ pc \in {"main_exit", "done", "killed"}

\* C1 witness: the probe failed and the process ran to its end.
C1_Witness ==
    /\ probeResult = "Err"
    /\ calls.probe = 1
    /\ pc = "done"

\* C2 (clean shutdown on signal), as claimed: whenever the process has ended,
\* the real session has been torn down, at whatever moment after the real
\* mount succeeded the interrupt arrived.
C2_NeverEndsMounted ==
    pc \in Terminal => ~realLive

\* C3 (P5 flag monotonicity): within a run the flag is created as true, the
\* only step that changes it afterwards is a signal delivery and that stores
\* false, a false flag stays false, a poll of a false flag reads false and
\* the loop never again reads true after it has read false.
C3_FlagMonotone ==
    [][runs' = runs =>
          /\ (running = "unallocated" /\ running' # running) => running' = "true"
          /\ (running = "true" /\ running' # running) =>
                (running' = "false" /\ signals' = signals + 1 /\ handlerInstalled)
          /\ running = "false" => running' = "false"
          /\ (running = "false" /\ pc = "poll" /\ pc' # "poll") => polled' = "false"
          /\ polled = "false" => polled' = "false"]_vars

\* C3 witness: two interrupts were handled and the loop has read false.
C3_Witness ==
    /\ running = "false"
    /\ polled = "false"
    /\ signals = 2
    /\ handlerInstalled

\* C4 (scenario D bounded response): once the flag is false no new sleep is
\* started, the next poll leaves the loop, at most one polling interval is
\* slept out after the flip, and with the main thread scheduled the process
\* reaches its end.
C4_BoundedResponse ==
    /\ [][(running = "false" /\ pc # "sleep") => pc' # "sleep"]_vars
    /\ [][(running = "false" /\ pc = "poll" /\ pc' # "poll") => pc' = "scope_exit"]_vars
    /\ [](latency <= PollMillis)
    /\ (running = "false") ~> (pc = "done")

\* C4 witness: the flag flipped during a sleep, the sleep ran out, the loop
\* read false once and the process ended.
C4_Witness ==
    /\ latency = PollMillis
    /\ polled = "false"
    /\ pc = "done"

\* C5 (mount session mutual exclusion): the probe session and the real
\* session are never live together, and the probe session is gone once
\* the real filesystem is being constructed or has been constructed.
C5_MutualExclusion ==
    /\ ~(probeLive /\ realLive)
    /\ (pc \in {"construct", "real_mount"} \/ calls.construct > 0) => ~probeLive
    /\ realResult # "none" => ~probeLive

\* C5 witness: the real session is live after a probe that succeeded.
C5_Witness ==
    /\ realLive
    /\ ~probeLive
    /\ probeResult = "Ok"
    /\ calls.probe = 1

\* C6 (P3 option pairing): for a mount-options list of length n the argument
\* vector has length 2n, "-o" at every even 0-based position, the i-th value
\* right after the i-th marker, and so never ends on an unpaired marker
\* (checked of the vector as built and as handed to both spawn_mount calls).
C6_OptionPairing ==
    (pc = "probe_mount" \/ calls.probe > 0) =>
        LET vals == config.mount_options
            n == Len(vals)
        IN  /\ Len(options) = 2 * n
            /\ \A i \in 1..n : options[2 * i - 1] = "-o" /\ options[2 * i] = vals[i]
            /\ n > 0 => options[Len(options)] = vals[n]

\* C6 witness: a two element list has been paired.
C6_Witness ==
    /\ config.mount_options = <<"ro", "allow_other">>
    /\ options = <<"-o", "ro", "-o", "allow_other">>
    /\ pc = "probe_mount"

\* C6 second case, n = 0: the empty list gives the empty argument vector.
C6_WitnessEmpty ==
    /\ calls.supervisor = 1
    /\ config.mount_options = <<>>
    /\ options = <<>>
    /\ pc = "probe_mount"

\* C7 (P1 idempotent default creation): a run that found a settings file
\* leaves it as it found it; over all runs the file is created and the
\* template written at most once, and only if the file was absent at first;
\* once a loader call that found the file absent has returned Ok, the file
\* holds the default content, written exactly once, through every later call.
C7_IdempotentDefault ==
    /\ fileAtStart.kind # "absent" => file = fileAtStart
    /\ fileWrites <= fileCreates
    /\ fileCreates <= 1
    /\ fileCreates > 0 => initAbsent
    /\ absentOk => (file = DEFAULT_CONFIG /\ fileCreates = 1 /\ fileWrites = 1)

\* C7 witness: the second of two loader calls has returned Ok; the first
\* found no file and created it, the second found it and left it alone.
C7_Witness ==
    /\ initAbsent
    /\ absentOk
    /\ runs = 2
    /\ loaderCalls = 2
    /\ ~foundAbsent
    /\ loadResult = "Ok"
    /\ fileWrites = 1
    /\ file = DEFAULT_CONFIG

\* C8 (P2 credential path always derived): every Configuration the loader
\* returns has its credential path set to the derived path, whatever the
\* settings file says under token_path.
C8_TokenPathDerived ==
    loadResult = "Ok" =>
        /\ config.token_path # None
        /\ config.token_path = DerivedTokenPath

\* C8 witness: the file names another credential path and the loader
\* returned the derived one.
C8_Witness ==
    /\ loadResult = "Ok"
    /\ file.token_path = ForeignTokenPath
    /\ config.token_path = DerivedTokenPath

\* C9 (configuration errors fail fast): in a run whose loader failed the
\* process has aborted, the supervisor was never called, no probe mount, no
\* construction, no real mount and no credential removal happened; a
\* malformed settings file never yields a Configuration.
C9_FailFast ==
    /\ loadResult \in {"Err", "Panic"} =>
          /\ pc = "aborted"
          /\ calls.supervisor = 0
          /\ calls.probe = 0
          /\ calls.construct = 0
          /\ calls.realMount = 0
          /\ calls.remove = 0
          /\ ~probeLive /\ ~realLive
          /\ config = NoConfig
    /\ file.kind = "malformed" =>
          (loadResult # "Ok" /\ calls.supervisor = 0 /\ calls.remove = 0)

\* C9 witness: a malformed file was given to the parser in a mount run and
\* the process aborted.
C9_Witness ==
    /\ file.kind = "malformed"
    /\ cmd = "mount"
    /\ calls.merge = 1
    /\ loadResult = "Panic"
    /\ pc = "aborted"

\* C10 (signal setup failure is fatal): when set_handler fails the process
\* aborts with the real session torn down and without a single poll; the
\* wait loop runs only with the handler installed, and once registration
\* has been attempted a live real session has an installed handler.
C10_HandlerFailureFatal ==
    /\ handlerFailed => (pc = "aborted" /\ ~realLive /\ polled = "none")
    /\ pc \in {"poll", "sleep"} => handlerInstalled
    /\ (calls.handler > 0 /\ realLive) => handlerInstalled

\* C10 witness: registration failed after a real mount that succeeded.
C10_Witness ==
    /\ handlerFailed
    /\ realResult = "Ok"
    /\ pc = "aborted"

\* Positions of the main thread in steps 2-4 of the supervisor (probe
\* mount, probe teardown, construction, real mount) and in the wait loop.
MountPhase == {"probe_mount", "probe_drop", "construct", "real_mount"}
WaitLoop == {"poll", "sleep"}
AfterLoop == {"scope_exit", "main_exit", "done"}

\* C11 (scenario E, logout failure is not fatal): after a failed removal of
\* the credential file the process has not aborted, goes on to the end of
\* main, never calls the supervisor or mounts anything, and the removal step
\* leaves the settings file and the directory as they were; with the main
\* thread scheduled the process ends.
C11_LogoutFailureNotFatal ==
    /\ [](removeResult = "Err" =>
            /\ pc \in {"dispatch_mount", "done", "killed"}
            /\ calls.supervisor = 0
            /\ calls.probe = 0
            /\ calls.realMount = 0
            /\ ~probeLive /\ ~realLive)
    /\ [][pc = "dispatch_logout" => (file' = file /\ dirExists' = dirExists)]_vars
    /\ (removeResult = "Err") ~> (pc \in {"done", "killed"})

\* C11 witness: logout with no credential file: the removal failed and the
\* process ended normally.
C11_Witness ==
    /\ cmd = "logout"
    /\ ~tokenExists
    /\ removeResult = "Err"
    /\ pc = "done"

\* C12 (scenario A, first run): the parser is never given a settings file
\* that does not exist; in a run that found no file the template is in place
\* before the parse and the parse of it does not fail; a loader call that
\* found neither directory nor file and returned Ok has created the
\* directory and returns debug = false, sync_interval = 10, four mount
\* options and the derived, non-empty credential path.
C12_FirstRun ==
    /\ (pc \in {"lc_merge", "lc_convert"} \/ calls.merge > 0) => file.kind # "absent"
    /\ (fileAtStart.kind = "absent" /\ (pc \in {"lc_merge", "lc_convert"} \/ calls.merge > 0)) =>
          (file = DEFAULT_CONFIG /\ dirExists /\ loadResult \in {"none", "Ok"})
    /\ (~dirAtStart /\ fileAtStart.kind = "absent" /\ loadResult = "Ok") =>
          /\ dirExists
          /\ file = DEFAULT_CONFIG
          /\ config.debug = FALSE
          /\ config.sync_interval = DefaultSyncInterval
          /\ Len(config.mount_options) = 4
          /\ config.token_path \notin {None, ""}

\* C12 witness: the first run of the program, with no directory, has loaded
\* its configuration.
C12_Witness ==
    /\ runs = 1
    /\ ~dirAtStart
    /\ fileAtStart.kind = "absent"
    /\ loadResult = "Ok"
    /\ fileWrites = 1

\* C13 (ordered, no-retry algorithm): in a run the supervisor, the probe
\* mount, the construction, the real mount and the handler registration are
\* each attempted at most once, and each only after every earlier step has
\* succeeded; the wait loop runs only after the handler was installed.
C13_OrderedNoRetry ==
    /\ calls.supervisor <= 1 /\ calls.probe <= 1 /\ calls.construct <= 1
    /\ calls.realMount <= 1 /\ calls.handler <= 1
    /\ calls.probe > 0 => calls.supervisor = 1
    /\ calls.construct > 0 => (probeResult = "Ok" /\ ~probeLive)
    /\ calls.realMount > 0 => calls.construct = 1
    /\ calls.handler > 0 => (realResult = "Ok" /\ running # "unallocated")
    /\ (pc \in WaitLoop \/ polled # "none") => (handlerInstalled /\ calls.handler = 1)
    /\ probeResult = "Err" => calls.construct = 0
    /\ realResult = "Err" => calls.handler = 0

\* C13 witness: every step ran once and the supervisor is in its wait loop.
C13_Witness ==
    /\ pc = "sleep"
    /\ calls.probe = 1 /\ calls.construct = 1 /\ calls.realMount = 1 /\ calls.handler = 1

\* C14 (real mount failure): after a real mount that failed no session is
\* live, no flag was created, no handler registered, the wait loop was never
\* entered, and the supervisor has returned without a panic.
C14_RealMountFailure ==
    realResult = "Err" =>
        /\ probeResult = "Ok"
        /\ ~realLive /\ ~probeLive
        /\ running = "unallocated"
        /\ calls.handler = 0 /\ ~handlerInstalled /\ ~handlerFailed
        /\ polled = "none"
        /\ pc \in {"main_exit", "done", "killed"}

\* C14 witness: the probe succeeded, the real mount failed, the process ended.
C14_Witness ==
    /\ probeResult = "Ok"
    /\ realResult = "Err"
    /\ pc = "done"

\* C15 (mount attempt is not interruptible), as claimed: an interrupt that
\* arrives while the supervisor is in steps 2-4 leaves the main thread where
\* it is, so that the step in progress runs to its end.
C15_MountNotInterruptible ==
    [][(pc \in MountPhase /\ signals' = signals + 1) => pc' = pc]_vars

\* C16 (the shutdown flag is the only exit from the wait): with the handler
\* installed and no interrupt delivered the supervisor is still in the loop
\* with the real session live; it is past the loop only with the flag false,
\* read as false, after at least one interrupt.
C16_FlagOnlyExit ==
    /\ (handlerInstalled /\ signals = 0) =>
          (pc \in WaitLoop /\ realLive /\ running = "true")
    /\ (handlerInstalled /\ pc \notin WaitLoop) =>
          (running = "false" /\ polled = "false" /\ signals >= 1)
    /\ (handlerInstalled /\ ~realLive) => running = "false"

\* C16 witness: one interrupt, and the supervisor has left the loop and
\* the process has ended.
C16_Witness ==
    /\ handlerInstalled
    /\ signals = 1
    /\ polled = "false"
    /\ pc = "done"

\* C17 (no session outlives the supervisor): once control is back in main
\* after the supervisor, neither session is live; the real session is still
\* live when the loop is left and, unless registration panicked, is gone
\* only after the flag was read as false.
C17_NoSessionOutlives ==
    /\ (calls.supervisor = 1 /\ pc \in {"main_exit", "done"}) => (~probeLive /\ ~realLive)
    /\ pc = "scope_exit" => realLive
    /\ (realResult = "Ok" /\ ~realLive /\ ~handlerFailed) =>
          (running = "false" /\ polled = "false" /\ pc \in {"main_exit", "done"})

\* C17 witness: the supervisor returned after the wait loop and the real
\* session was dropped.
C17_Witness ==
    /\ pc = "main_exit"
    /\ realResult = "Ok"
    /\ ~realLive
    /\ calls.realDrop = 1

\* C18 (repeated signal delivery is idempotent): with the handler installed
\* every delivery leaves the flag false; a delivery that finds the flag false
\* changes nothing but the count of deliveries; the loop, once left, is not
\* entered again and the real session is dropped at most once.
C18_RepeatedSignalIdempotent ==
    /\ []((handlerInstalled /\ signals >= 1) => running = "false")
    /\ [](calls.realDrop <= 1)
    /\ [][(handlerInstalled /\ running = "false" /\ signals' = signals + 1) =>
            UNCHANGED <<fsVars, histVars, loadVars, mountVars, resVars, cmd, pc, calls>>]_vars
    /\ [][(runs' = runs /\ pc \in AfterLoop) => pc' \notin WaitLoop]_vars

\* C18 witness: two interrupts were delivered, the loop was left and the
\* session dropped once.
C18_Witness ==
    /\ handlerInstalled
    /\ signals = 2
    /\ running = "false"
    /\ calls.realDrop = 1
    /\ pc = "done"

\* C19 (command dispatch routing): only logout removes a file, once, at the
\* derived credential path of the loaded configuration, and it never calls
\* the supervisor; only mount calls the supervisor, once, with a loaded
\* configuration, and never removes the credential file; any other command
\* does neither.
C19_DispatchRouting ==
    /\ calls.remove <= 1 /\ calls.supervisor <= 1
    /\ calls.remove > 0 =>
          /\ cmd = "logout" /\ loadResult = "Ok"
          /\ removeTarget = DerivedTokenPath /\ removeTarget = config.token_path
    /\ calls.supervisor > 0 => (cmd = "mount" /\ loadResult = "Ok")
    /\ cmd = "logout" =>
          (calls.supervisor = 0 /\ calls.probe = 0 /\ calls.construct = 0 /\ calls.realMount = 0)
    /\ cmd = "mount" => (calls.remove = 0 /\ removeResult = "none" /\ removeTarget = None)
    /\ cmd = "none" => (calls.supervisor = 0 /\ calls.remove = 0)
    /\ (cmd = "logout" /\ pc = "done") => calls.remove = 1
    /\ (cmd = "mount" /\ pc = "done") => calls.supervisor = 1
    /\ (calls.probe > 0 \/ calls.construct > 0 \/ calls.realMount > 0) => calls.supervisor = 1

\* C19 witness: a logout run removed the credential file and ended.
C19_Witness ==
    /\ cmd = "logout"
    /\ removeResult = "Ok"
    /\ ~tokenExists
    /\ pc = "done"

\* C19 second case: a mount run ended after one supervisor call.
C19_WitnessMount ==
    /\ cmd = "mount"
    /\ calls.supervisor = 1
    /\ tokenExists
    /\ pc = "done"

\* C20 (wait-loop precondition): inside the wait loop the real session is
\* live, the probe session is gone, the filesystem was constructed exactly
\* once and the handler is installed on the created flag; the handler is
\* registered at most once per process and only after a real mount that
\* succeeded.
C20_WaitLoopPrecondition ==
    /\ pc \in WaitLoop =>
          /\ realLive /\ realResult = "Ok"
          /\ ~probeLive
          /\ calls.construct = 1
          /\ handlerInstalled /\ calls.handler = 1
          /\ running \in {"true", "false"}
    /\ calls.handler <= 1
    /\ handlerInstalled => (calls.handler = 1 /\ realResult = "Ok" /\ running # "unallocated")

\* C20 witness: the supervisor sleeps in the loop with the flag still true.
C20_Witness ==
    /\ pc = "sleep"
    /\ running = "true"
    /\ realLive
    /\ handlerInstalled

====
